---- MODULE Spec2Model ----
(***************************************************************************)
(* Model of the article pipeline of convex/articles.ts: the public         *)
(* mutations create and retry, the scheduled action processArticle taken   *)
(* one awaited call at a time, and the internal mutations it runs          *)
(* (updateArticle, completeArticle, markError).                            *)
(*                                                                         *)
(* A document is a function from field names to values; an optional field *)
(* that is not set is not in the document's domain, as in the store.       *)
(* Mutations are single atomic steps (the store runs them as               *)
(* transactions); an action is not atomic and other steps interleave at    *)
(* each of its awaits.                                                     *)
(***************************************************************************)
EXTENDS Integers, Sequences, FiniteSets, TLC

\* ---------------------------------------------------------------- bounds
MaxArticles == 2
MaxRuns == 2

Urls == {"u1", "u2"}

\* ------------------------------------------------------------- constants
MinContentLength == 200

UntitledArticle == "Untitled Article"
NoContentExtracted == "No content extracted"
UnknownError == "Unknown error"
ArticleNotFound == "Article not found"
ArticleAlreadyExists == "Article already exists"
FetchFailedPrefix == "Failed to fetch article: "

\* A JSON value of the model's answer that is not a string (a number, an
\* array, an object): truthy, so `||` keeps it, and rejected by v.string().
NonString == "<non-string value>"
ValidationError == "ArgumentValidationError: Value does not match validator"

RECURSIVE Rep(_, _)
Rep(s, n) == IF n = 0 THEN "" ELSE s \o Rep(s, n - 1)

LongText == Rep("lorem ", 40)
ShortText == "too short"

\* ------------------------------------------------------------ documents
Has(doc, f) == f \in DOMAIN doc

\* ctx.db.patch: fields given a value are set, fields given undefined are
\* removed, all other fields are kept.
dbPatch(doc, set, unset) ==
    [f \in (DOMAIN doc \cup DOMAIN set) \ unset |->
        IF f \in DOMAIN set THEN set[f] ELSE doc[f]]

newArticle(url) == [url |-> url, status |-> "processing"]

retryPatchKeepsTitle(doc) ==
    dbPatch(doc, [status |-> "processing"],
            {"errorMessage", "content", "audioFileId"})

retryPatchKeepsAudio(doc) ==
    dbPatch(doc, [status |-> "processing"],
            {"errorMessage", "title", "content"})

retryPatch(doc) ==
    dbPatch(doc, [status |-> "processing"],
            {"errorMessage", "title", "content", "audioFileId"})

updateArticle(doc, title, content) ==
    dbPatch(doc, [title |-> title, content |-> content], {})

completeArticleStatusOnly(doc, audioFileId) ==
    dbPatch(doc, [status |-> "completed"], {})

completeArticle(doc, audioFileId) ==
    dbPatch(doc, [status |-> "completed", audioFileId |-> audioFileId], {})

markErrorKeepsCompleted(doc, errorMessage) ==
    IF doc.status = "completed" THEN doc
    ELSE dbPatch(doc, [status |-> "error", errorMessage |-> errorMessage], {})

markErrorStatusOnly(doc, errorMessage) ==
    dbPatch(doc, [status |-> "error"], {})

markError(doc, errorMessage) ==
    dbPatch(doc, [status |-> "error", errorMessage |-> errorMessage], {})

\* v.string() on an argument of an internal mutation
IsString(x) == x # NonString

\* --------------------------------------------------------------- values
\* What a failing external call throws: an Error with a message or, from
\* the model client, a value that is not an Error.
Err(msg) == [isError |-> TRUE, message |-> msg]
NotAnError == [isError |-> FALSE, message |-> ""]
NoError == [isError |-> FALSE, message |-> "<none>"]

Thrown == {Err("boom")}
ThrownByModel == {Err("boom"), NotAnError}

errorMessageOfNoFallback(error) == error.message

\* error instanceof Error ? error.message : "Unknown error"
errorMessageOf(error) == IF error.isError THEN error.message ELSE UnknownError

\* Responses of fetch: ok with a body, or not ok with a status text.
StatusTexts == {"Not Found"}

\* ----------------------------------------------------- strings of markup
\* Markup is a string; the patterns of the extractors are written out as
\* searches over its positions (1-based).  The patterns are matched as the
\* regular expressions match them on markup whose tags are in lower case.
Quotes == {"\"", "'"}
WhiteSpace == {" ", "\t", "\n", "\r"}
WordChars ==
    {"a", "b", "c", "d", "e", "f", "g", "h", "i", "j", "k", "l", "m", "n", "o",
     "p", "q", "r", "s", "t", "u", "v", "w", "x", "y", "z",
     "A", "B", "C", "D", "E", "F", "G", "H", "I", "J", "K", "L", "M", "N", "O",
     "P", "Q", "R", "S", "T", "U", "V", "W", "X", "Y", "Z",
     "0", "1", "2", "3", "4", "5", "6", "7", "8", "9", "_"}

Min(S) == CHOOSE x \in S : \A y \in S : x <= y
Max(S) == CHOOSE x \in S : \A y \in S : x >= y
First(S) == IF S = {} THEN 0 ELSE Min(S)

At(s, i) == IF i >= 1 /\ i <= Len(s) THEN SubSeq(s, i, i) ELSE ""
Slice(s, i, j) == IF i > j THEN "" ELSE SubSeq(s, i, j)
StartsAt(s, i, pat) ==
    i >= 1 /\ i + Len(pat) - 1 <= Len(s) /\ SubSeq(s, i, i + Len(pat) - 1) = pat

\* the first position >= from where pat starts / where a character of
\* chars stands; 0 when there is none
indexOf(s, pat, from) == First({i \in from..Len(s) : StartsAt(s, i, pat)})
indexOfAny(s, chars, from) == First({i \in from..Len(s) : At(s, i) \in chars})

\* a match of a pattern with one group: <<>> is null, <<text>> is a match
\* whose group captured text
null1 == <<>>

\* .trim()
trim(s) ==
    LET inked == {i \in 1..Len(s) : At(s, i) \notin WhiteSpace}
    IN  IF inked = {} THEN "" ELSE Slice(s, Min(inked), Max(inked))

\* .replace(/<NAME\b[^<]*(?:(?!<\/NAME>)<[^<]*)*<\/NAME>/gi, ""): every
\* "<NAME" at a word boundary is removed up to the first "</NAME>" after it
RECURSIVE removeElements(_, _)
removeElements(s, name) ==
    LET open == "<" \o name
        close == "</" \o name \o ">"
        starts == {i \in 1..Len(s) :
                      /\ StartsAt(s, i, open)
                      /\ At(s, i + Len(open)) \notin WordChars
                      /\ indexOf(s, close, i + Len(open)) # 0}
    IN  IF starts = {} THEN s
        ELSE LET i == Min(starts)
                 j == indexOf(s, close, i + Len(open))
             IN  Slice(s, 1, i - 1)
                   \o removeElements(Slice(s, j + Len(close), Len(s)), name)

\* html.replace(script pattern, "").replace(style pattern, "")
cleanHtmlOf(html) == removeElements(removeElements(html, "script"), "style")

\* cleanHtml.match(/<title[^>]*>([^<]+)<\/title>/i)
titleMatch(s) ==
    LET gt(i) == indexOf(s, ">", i + 6)
        lt(i) == indexOf(s, "<", gt(i) + 1)
        starts == {i \in 1..Len(s) :
                      /\ StartsAt(s, i, "<title")
                      /\ gt(i) # 0
                      /\ lt(i) > gt(i) + 1
                      /\ StartsAt(s, lt(i), "</title>")}
    IN  IF starts = {} THEN null1
        ELSE LET i == Min(starts) IN <<Slice(s, gt(i) + 1, lt(i) - 1)>>

\* cleanHtml.match(/<meta[^>]*property=["']og:title["'][^>]*content=["']([^"']+)["']/i)
metaTitleMatch(s) ==
    LET inTag(i, c) == indexOf(s, ">", i) = 0 \/ c < indexOf(s, ">", i)
        props(i) == {p \in i + 5..Len(s) :
                        /\ StartsAt(s, p, "property=")
                        /\ inTag(i + 5, p)
                        /\ At(s, p + 9) \in Quotes
                        /\ StartsAt(s, p + 10, "og:title")
                        /\ At(s, p + 18) \in Quotes}
        quote(c) == indexOfAny(s, Quotes, c + 9)
        conts(p) == {c \in p + 19..Len(s) :
                        /\ StartsAt(s, c, "content=")
                        /\ inTag(p + 19, c)
                        /\ At(s, c + 8) \in Quotes
                        /\ quote(c) > c + 9}
        starts == {i \in 1..Len(s) :
                      StartsAt(s, i, "<meta") /\ \E p \in props(i) : conts(p) # {}}
    IN  IF starts = {} THEN null1
        ELSE LET i == Min(starts)
                 p == Max({q \in props(i) : conts(q) # {}})
                 c == Max(conts(p))
             IN  <<Slice(s, c + 9, quote(c) - 1)>>

\* The content selectors, as the pattern built from each reads them: after
\* selector.replace(".", "") the text stands in the pattern as it is, so the
\* brackets of [role="main"] make it a set of characters of which one has
\* to occur, and the other selectors are literal texts.
contentSelectors ==
    << [text |-> "article", chars |-> {}],
       [text |-> "", chars |-> {"r", "o", "l", "e", "=", "\"", "m", "a", "i", "n"}],
       [text |-> "post-content", chars |-> {}],
       [text |-> "entry-content", chars |-> {}],
       [text |-> "article-content", chars |-> {}],
       [text |-> "content", chars |-> {}],
       [text |-> "main", chars |-> {}] >>

\* cleanHtml.match(new RegExp(
\*   `<[^>]*class=["'][^"']*${selector}[^"']*["'][^>]*>([\\s\\S]*?)<\/[^>]+>`, "i"))
\* from a "<", within the same tag, class= and a quoted value in which the
\* selector occurs; then the end of that tag; the group runs up to the first
\* closing tag of any name.  For the set of characters the closing double
\* quote of the value can itself be the occurrence, and the pattern then
\* reads on to the next quote of the markup; that reading is tried first.
selectorMatch(s, selector) ==
    LET closeAt(e) == /\ StartsAt(s, e, "</")
                      /\ At(s, e + 2) \notin {"", ">"}
                      /\ indexOf(s, ">", e + 3) # 0
        \* the group, when the quoted part of the pattern ends at position q
        gt(q) == indexOf(s, ">", q + 1)
        ends(q) == {e \in gt(q) + 1..Len(s) : closeAt(e)}
        ok(q) == q # 0 /\ gt(q) # 0 /\ ends(q) # {}
        group(q) == Slice(s, gt(q) + 1, Min(ends(q)) - 1)
        \* the value that opens at c + 6 and closes at the next quote
        closing(c) == indexOfAny(s, Quotes, c + 7)
        value(c) == Slice(s, c + 7, closing(c) - 1)
        further(c) == IF At(s, closing(c)) \in selector.chars
                      THEN indexOfAny(s, Quotes, closing(c) + 1) ELSE 0
        within(c) == IF selector.chars = {}
                     THEN indexOf(value(c), selector.text, 1) # 0
                     ELSE indexOfAny(value(c), selector.chars, 1) # 0
        matches(c) == closing(c) # 0 /\ \/ ok(further(c))
                                        \/ within(c) /\ ok(closing(c))
        classes(i) == {c \in i + 1..Len(s) :
                          /\ StartsAt(s, c, "class=")
                          /\ At(s, c + 6) \in Quotes
                          /\ indexOf(s, ">", i + 1) = 0 \/ c < indexOf(s, ">", i + 1)
                          /\ matches(c)}
        starts == {i \in 1..Len(s) : At(s, i) = "<" /\ classes(i) # {}}
    IN  IF starts = {} THEN null1
        ELSE LET c == Max(classes(Min(starts)))
             IN  IF ok(further(c)) THEN <<group(further(c))>>
                 ELSE <<group(closing(c))>>

\* for (const selector of contentSelectors) { ... if (match) { content =
\* match[1]; break; } }: the group of the first selector that matches
RECURSIVE firstSelectorContent(_, _)
firstSelectorContent(s, n) ==
    IF n > Len(contentSelectors) THEN ""
    ELSE LET match == selectorMatch(s, contentSelectors[n])
         IN  IF match # null1 THEN match[1] ELSE firstSelectorContent(s, n + 1)

\* cleanHtml.match(/<body[^>]*>([\s\S]*?)<\/body>/i)
bodyMatch(s) ==
    LET gt(i) == indexOf(s, ">", i + 5)
        starts == {i \in 1..Len(s) :
                      /\ StartsAt(s, i, "<body")
                      /\ gt(i) # 0
                      /\ indexOf(s, "</body>", gt(i) + 1) # 0}
    IN  IF starts = {} THEN null1
        ELSE LET i == Min(starts)
             IN  <<Slice(s, gt(i) + 1, indexOf(s, "</body>", gt(i) + 1) - 1)>>

\* .replace(/<[^>]+>/g, " ")
RECURSIVE removeTags(_)
removeTags(s) ==
    LET starts == {i \in 1..Len(s) :
                      /\ At(s, i) = "<"
                      /\ At(s, i + 1) \notin {"", ">"}
                      /\ indexOf(s, ">", i + 2) # 0}
    IN  IF starts = {} THEN s
        ELSE LET i == Min(starts)
                 j == indexOf(s, ">", i + 2)
             IN  Slice(s, 1, i - 1) \o " " \o removeTags(Slice(s, j + 1, Len(s)))

\* .replace(/\s+/g, " ")
RECURSIVE normalizeWhitespace(_)
normalizeWhitespace(s) ==
    LET i == indexOfAny(s, WhiteSpace, 1) IN
    IF i = 0 THEN s
    ELSE LET inked == {j \in i..Len(s) : At(s, j) \notin WhiteSpace}
         IN  IF inked = {} THEN Slice(s, 1, i - 1) \o " "
             ELSE Slice(s, 1, i - 1) \o " "
                    \o normalizeWhitespace(Slice(s, Min(inked), Len(s)))

\* the pages that a run can be given: one with a title and a long body in
\* a container that a selector pattern finds, one with neither
Pages == { "<title>Foo</title><div class=\"article\">" \o LongText \o "</div>",
           "<p>" \o ShortText \o "</p>" }

\* The parsed JSON object of the model's answer: a title without content,
\* or a title that is not a string.
AIResults == { [title |-> "AI Title"],
               [title |-> NonString, content |-> "AI content"] }

extractWithTraditionalMethods(html) ==
    LET cleanHtml == cleanHtmlOf(html)
        match == titleMatch(cleanHtml)
        tagTitle == IF match # null1 THEN trim(match[1]) ELSE ""
        metaMatch == metaTitleMatch(cleanHtml)
        title == IF tagTitle # "" THEN tagTitle
                 ELSE IF metaMatch # null1 THEN trim(metaMatch[1])
                 ELSE UntitledArticle
        selected == firstSelectorContent(cleanHtml, 1)
        body == bodyMatch(cleanHtml)
        content == IF selected # "" THEN selected
                   ELSE IF body # null1 THEN body[1] ELSE cleanHtml
    IN  [title |-> title,
         content |-> trim(normalizeWhitespace(removeTags(content)))]

\* const traditionalExtraction = extractWithTraditionalMethods(html), for
\* each page, computed once
traditionalExtractionOf == [html \in Pages |-> extractWithTraditionalMethods(html)]

needsAITitleOnly(traditionalExtraction) ==
    traditionalExtraction.title = ""

\* the test of extractArticleContent that sends the page to the model
needsAI(traditionalExtraction) ==
    \/ traditionalExtraction.title = ""
    \/ Len(traditionalExtraction.content) < MinContentLength

\* result.title || "Untitled Article", result.content || "No content extracted"
extractWithAI(result) ==
    [title |-> IF Has(result, "title") /\ result.title # ""
               THEN result.title ELSE UntitledArticle,
     content |-> IF Has(result, "content") /\ result.content # ""
                 THEN result.content ELSE NoContentExtracted]

\* html.replace(...)...trim().substring(0, 8000): the text that
\* extractWithAI puts in its question to the model
MaxPromptLength == 8000
promptTextOf(html) ==
    LET text == trim(normalizeWhitespace(removeTags(cleanHtmlOf(html))))
    IN  Slice(text, 1, IF Len(text) < MaxPromptLength THEN Len(text)
                       ELSE MaxPromptLength)

\* The documents given to one call of extractArticleContent taken on its
\* own: a head, then a text inside a wrapper.  title is the text of the
\* title element of the head, "" when it has none or an empty one; article
\* tells whether the wrapper puts the text in an <article> element.
Heads ==
    { [markup |-> "", title |-> ""],
      [markup |-> "<title>Foo</title>", title |-> "Foo"],
      [markup |-> "<title></title>", title |-> ""],
      [markup |-> "<title> Foo Bar </title>", title |-> "Foo Bar"],
      [markup |-> "<meta property=\"og:title\" content=\"Og Title\">", title |-> ""],
      [markup |-> "<title></title><meta property=\"og:title\" content=\"Og Title\">",
       title |-> ""] }
Wrappers ==
    { [before |-> "", after |-> "", article |-> FALSE],
      [before |-> "<article>", after |-> "</article>", article |-> TRUE],
      [before |-> "<body><nav>Menu</nav><article>", after |-> "</article></body>",
       article |-> TRUE],
      [before |-> "<body><div class=\"post-content\"><p>",
       after |-> "</p></div></body>", article |-> FALSE],
      [before |-> "<script>var x = 1;</script><article>", after |-> "</article>",
       article |-> TRUE],
      [before |-> "<article class=\"article\">", after |-> "</article>",
       article |-> TRUE] }
\* texts of 9, 199 and 200 characters
Texts == {ShortText, Rep("lorem ", 33) \o "i", Rep("lorem ", 33) \o "ip"}
Documents ==
    { [html |-> h.markup \o w.before \o t \o w.after,
       titleText |-> h.title,
       articleText |-> IF w.article THEN t ELSE ""] :
         h \in Heads, w \in Wrappers, t \in Texts }

\* JSON.parse(response.choices[0].message.content || "{}"): the objects the
\* model's answer can parse to
ModelAnswers ==
    { [title |-> "AI Title", content |-> "AI content"],
      [title |-> "AI Title"],
      [content |-> "AI content"],
      [title |-> "", content |-> ""],
      [title |-> NonString, content |-> "AI content"],
      [other |-> "x"] }

NoData == [title |-> "", content |-> ""]

\* The buffer generateAudio returns for a text.
generateAudio(text) == <<"speech", text>>
NoAudio == <<>>

\* ---------------------------------------------------------------- state
VARIABLES
    articles,   \* the articles table: articles[id] is the document of id
    runs,       \* the scheduled processArticle invocations, in scheduling order
    storage,    \* the blob store: storage[fileId] is the stored buffer
    lastOp,     \* what the last step was and, for create/retry, its outcome
    epoch,      \* history: epoch[id] = number of successful retries of id
    writtenBy,  \* history: the run that wrote the visible title/content, audio
    overlapped, \* history: the runs in flight that have shared their article
                \* with another run in flight
    ex,         \* one call of extractArticleContent, taken on its own
    au          \* one call of generateAudio, taken on its own

vars == <<articles, runs, storage, lastOp, epoch, writtenBy, overlapped, ex, au>>

ArticleIds == 1..Len(articles)
RunIds == 1..Len(runs)

\* the two ways the handler of processArticle returns
Returned == {"completed", "error"}
InFlight(r) == runs[r].pc \notin Returned
inFlightOf(articleId) ==
    {r \in RunIds : runs[r].articleId = articleId /\ InFlight(r)}

\* extractArticleContent / generateAudio is not being called on its own
NoCall == [pc |-> "none"]

Init ==
    /\ articles = <<>>
    /\ runs = <<>>
    /\ storage = <<>>
    /\ lastOp = [op |-> "init", url |-> "", articleId |-> 0, error |-> ""]
    /\ epoch = <<>>
    /\ writtenBy = <<>>
    /\ overlapped = {}
    /\ ex = NoCall
    /\ au = NoCall

\* ctx.scheduler.runAfter(0, internal.articles.processArticle, {articleId}):
\* a new invocation, at its first statement, its locals not yet assigned
newRun(articleId, ep) ==
    [articleId |-> articleId, pc |-> "scheduled", epoch |-> ep,
     url |-> "", extractedData |-> NoData,
     audioBuffer |-> NoAudio, audioFileId |-> 0, error |-> NoError]

finishedNever(run, outcome) == run

\* an invocation that has returned: its locals are gone
finished(run, outcome) ==
    [newRun(run.articleId, run.epoch) EXCEPT !.pc = outcome]

existingNeverFound(url) == 0

\* .filter(q => q.eq(q.field("url"), args.url)).first()
existing(url) ==
    LET ids == {i \in ArticleIds : articles[i].url = url}
    IN  IF ids = {} THEN 0 ELSE CHOOSE i \in ids : \A j \in ids : i <= j

\* ctx.db.get(articleId): the document, or null (here: the empty function)
null == [f \in {} |-> ""]
getArticle(articleId) ==
    IF articleId \in ArticleIds THEN articles[articleId] ELSE null

\* ctx.storage.getUrl(fileId): a url of the stored file, or null
nullUrl == <<>>
getUrl(fileId) ==
    IF fileId \in 1..Len(storage) THEN <<"url", fileId>> ELSE nullUrl

\* the query list: the documents, most recent first, each with its id and
\* with audioUrl
list ==
    LET n == Len(articles) IN
    [i \in 1..n |->
        LET article == articles[n + 1 - i] IN
        dbPatch(article,
                [id |-> n + 1 - i,
                 audioUrl |-> IF Has(article, "audioFileId")
                              THEN getUrl(article.audioFileId) ELSE nullUrl],
                {})]

Step == [op |-> "step", url |-> "", articleId |-> 0, error |-> ""]

\* ------------------------------------------------------- public mutations
create(url) ==
    IF existing(url) # 0
    THEN /\ lastOp' = [op |-> "create", url |-> url, articleId |-> 0,
                       error |-> ArticleAlreadyExists]
         /\ UNCHANGED <<articles, runs, storage, epoch, writtenBy, overlapped, ex, au>>
    ELSE /\ Len(articles) < MaxArticles
         /\ Len(runs) < MaxRuns
         /\ LET articleId == Len(articles) + 1 IN
            /\ articles' = Append(articles, newArticle(url))
            /\ runs' = Append(runs, newRun(articleId, 0))
            /\ lastOp' = [op |-> "create", url |-> url, articleId |-> articleId,
                          error |-> ""]
         /\ epoch' = Append(epoch, 0)
         /\ writtenBy' = Append(writtenBy, [text |-> 0, audio |-> 0])
         /\ UNCHANGED <<storage, overlapped, ex, au>>

retry(articleId) ==
    IF getArticle(articleId) = null
    THEN /\ lastOp' = [op |-> "retry", url |-> "", articleId |-> articleId,
                       error |-> ArticleNotFound]
         /\ UNCHANGED <<articles, runs, storage, epoch, writtenBy, overlapped, ex, au>>
    ELSE /\ Len(runs) < MaxRuns
         /\ articles' = [articles EXCEPT ![articleId] = retryPatch(@)]
         /\ runs' = Append(runs, newRun(articleId, epoch[articleId] + 1))
         /\ lastOp' = [op |-> "retry", url |-> "", articleId |-> articleId,
                       error |-> ""]
         /\ epoch' = [epoch EXCEPT ![articleId] = @ + 1]
         /\ writtenBy' = [writtenBy EXCEPT ![articleId] = [text |-> 0, audio |-> 0]]
         /\ overlapped' = IF inFlightOf(articleId) = {} THEN overlapped
                          ELSE overlapped \cup inFlightOf(articleId) \cup {Len(runs) + 1}
         /\ UNCHANGED <<storage, ex, au>>

\* ------------------------------------------- processArticle, step by step
\* a call of run r throws: control leaves the try block, whose constants
\* go out of scope, and enters the catch block with the thrown value
throw(r, error) ==
    [runs EXCEPT ![r] = [newRun(@.articleId, @.epoch) EXCEPT
                            !.pc = "catch", !.error = error]]

\* const article = await ctx.runQuery(getArticle); if (!article) throw
LoadArticle(r) ==
    /\ runs[r].pc = "scheduled"
    /\ LET article == getArticle(runs[r].articleId) IN
         runs' = IF article = null
                 THEN throw(r, Err(ArticleNotFound))
                 ELSE [runs EXCEPT ![r].pc = "fetch", ![r].url = article.url]
    /\ lastOp' = Step
    /\ UNCHANGED <<articles, storage, epoch, writtenBy, overlapped, ex, au>>

\* const response = await fetch(article.url); if (!response.ok) throw
FetchPage(r) ==
    /\ runs[r].pc = "fetch"
    /\ \/ \E e \in Thrown : runs' = throw(r, e)
       \/ \E statusText \in StatusTexts :
            runs' = throw(r, Err(FetchFailedPrefix \o statusText))
       \/ runs' = [runs EXCEPT ![r].pc = "text"]
    /\ lastOp' = Step
    /\ UNCHANGED <<articles, storage, epoch, writtenBy, overlapped, ex, au>>

\* const html = await response.text(); then extractArticleContent up to its
\* first await: the traditional extraction and the test for the model
ReadBody(r) ==
    /\ runs[r].pc = "text"
    /\ \/ \E e \in Thrown : runs' = throw(r, e)
       \/ \E html \in Pages :
            LET traditionalExtraction == traditionalExtractionOf[html] IN
            runs' = IF needsAI(traditionalExtraction)
                    THEN [runs EXCEPT ![r].pc = "ai"]
                    ELSE [runs EXCEPT ![r].pc = "update",
                                      ![r].extractedData = traditionalExtraction]
    /\ lastOp' = Step
    /\ UNCHANGED <<articles, storage, epoch, writtenBy, overlapped, ex, au>>

\* return await extractWithAI(html, url)
AskModel(r) ==
    /\ runs[r].pc = "ai"
    /\ \/ \E e \in ThrownByModel : runs' = throw(r, e)
       \/ \E result \in AIResults :
            runs' = [runs EXCEPT ![r].pc = "update",
                                 ![r].extractedData = extractWithAI(result)]
    /\ lastOp' = Step
    /\ UNCHANGED <<articles, storage, epoch, writtenBy, overlapped, ex, au>>

\* await ctx.runMutation(updateArticle, {articleId, title, content})
WriteExtracted(r) ==
    /\ runs[r].pc = "update"
    /\ LET id == runs[r].articleId
           data == runs[r].extractedData
       IN  IF IsString(data.title) /\ IsString(data.content)
           THEN /\ articles' = [articles EXCEPT
                                  ![id] = updateArticle(@, data.title, data.content)]
                /\ runs' = [runs EXCEPT ![r].pc = "generate"]
                /\ writtenBy' = [writtenBy EXCEPT ![id].text = r]
           ELSE /\ runs' = throw(r, Err(ValidationError))
                /\ UNCHANGED <<articles, writtenBy, overlapped, ex, au>>
    /\ lastOp' = Step
    /\ UNCHANGED <<storage, epoch, overlapped, ex, au>>

SynthesizeBeforeWrite(r) ==
    /\ runs[r].pc = "update"
    /\ runs' = [runs EXCEPT ![r].pc = "store",
                  ![r].audioBuffer = generateAudio(runs[r].extractedData.content)]
    /\ lastOp' = Step
    /\ UNCHANGED <<articles, storage, epoch, writtenBy, overlapped, ex, au>>

\* const audioBuffer = await ctx.runAction(generateAudio, {text})
Synthesize(r) ==
    /\ runs[r].pc = "generate"
    /\ \/ \E e \in Thrown : runs' = throw(r, e)
       \/ runs' = [runs EXCEPT ![r].pc = "store",
                     ![r].audioBuffer = generateAudio(runs[r].extractedData.content)]
    /\ lastOp' = Step
    /\ UNCHANGED <<articles, storage, epoch, writtenBy, overlapped, ex, au>>

\* const audioFileId = await ctx.storage.store(audioBlob)
StoreAudio(r) ==
    /\ runs[r].pc = "store"
    /\ \/ /\ \E e \in Thrown : runs' = throw(r, e)
          /\ UNCHANGED storage
       \/ /\ storage' = Append(storage, runs[r].audioBuffer)
          /\ runs' = [runs EXCEPT ![r].pc = "complete",
                                  ![r].audioFileId = Len(storage) + 1]
    /\ lastOp' = Step
    /\ UNCHANGED <<articles, epoch, writtenBy, overlapped, ex, au>>

\* await ctx.runMutation(completeArticle, {articleId, audioFileId})
Complete(r) ==
    /\ runs[r].pc = "complete"
    /\ LET id == runs[r].articleId IN
        /\ articles' = [articles EXCEPT
                          ![id] = completeArticle(@, runs[r].audioFileId)]
        /\ writtenBy' = [writtenBy EXCEPT ![id].audio = r]
    /\ runs' = [runs EXCEPT ![r] = finished(@, "completed")]
    /\ overlapped' = overlapped \ {r}
    /\ lastOp' = Step
    /\ UNCHANGED <<storage, epoch, ex, au>>

CatchErrorMarksAll(r) ==
    /\ runs[r].pc = "catch"
    /\ articles' = [b \in ArticleIds |->
                        markError(articles[b], errorMessageOf(runs[r].error))]
    /\ runs' = [runs EXCEPT ![r] = finished(@, "error")]
    /\ overlapped' = overlapped \ {r}
    /\ lastOp' = Step
    /\ UNCHANGED <<storage, epoch, writtenBy, ex, au>>

CatchErrorReschedules(r) ==
    /\ runs[r].pc = "catch"
    /\ articles' = [articles EXCEPT ![runs[r].articleId] =
                        markError(@, errorMessageOf(runs[r].error))]
    /\ runs' = LET returned == [runs EXCEPT ![r] = finished(@, "error")] IN
               IF Len(runs) < MaxRuns
               THEN Append(returned, newRun(runs[r].articleId, runs[r].epoch))
               ELSE returned
    /\ overlapped' = overlapped \ {r}
    /\ lastOp' = Step
    /\ UNCHANGED <<storage, epoch, writtenBy, ex, au>>

\* catch (error) { await ctx.runMutation(markError, {articleId, errorMessage}) }
CatchError(r) ==
    /\ runs[r].pc = "catch"
    /\ articles' = [articles EXCEPT ![runs[r].articleId] =
                        markError(@, errorMessageOf(runs[r].error))]
    /\ runs' = [runs EXCEPT ![r] = finished(@, "error")]
    /\ overlapped' = overlapped \ {r}
    /\ lastOp' = Step
    /\ UNCHANGED <<storage, epoch, writtenBy, ex, au>>

Next ==
    \/ \E url \in Urls : create(url)
    \/ \E articleId \in 1..MaxArticles : retry(articleId)
    \/ \E r \in RunIds : LoadArticle(r)
    \/ \E r \in RunIds : FetchPage(r)
    \/ \E r \in RunIds : ReadBody(r)
    \/ \E r \in RunIds : AskModel(r)
    \/ \E r \in RunIds : WriteExtracted(r)
    \/ \E r \in RunIds : Synthesize(r)
    \/ \E r \in RunIds : StoreAudio(r)
    \/ \E r \in RunIds : Complete(r)
    \/ \E r \in RunIds : CatchError(r)

Spec == Init /\ [][Next]_vars

\* one step of invocation r of processArticle
processArticle(r) ==
    /\ r \in RunIds
    /\ \/ LoadArticle(r) \/ FetchPage(r) \/ ReadBody(r) \/ AskModel(r)
       \/ WriteExtracted(r) \/ Synthesize(r) \/ StoreAudio(r)
       \/ Complete(r) \/ CatchError(r)

\* The scheduler runs every scheduled invocation and every call an
\* invocation awaits comes back, with a value or with a failure: an
\* invocation that can take a step eventually takes one.  Nothing obliges
\* a client to submit or to retry.
\* The steps when clients submit one url only: there is one article, which
\* they can retry, and its invocations.
NextOneUrl ==
    \/ create("u1")
    \/ \E articleId \in 1..MaxArticles : retry(articleId)
    \/ \E r \in 1..MaxRuns : processArticle(r)

FairSpec ==
    Init /\ [][NextOneUrl]_vars /\ \A r \in 1..MaxRuns : WF_vars(processArticle(r))

\* ------------------------------ one call of extractArticleContent alone
\* The tables stay empty and no run is scheduled; ex is the call: its
\* argument, the heuristic result, the model's parsed answer, the value
\* returned, and the number of questions put to the model.
InitExtract ==
    /\ articles = <<>>
    /\ runs = <<>>
    /\ storage = <<>>
    /\ lastOp = [op |-> "init", url |-> "", articleId |-> 0, error |-> ""]
    /\ epoch = <<>>
    /\ writtenBy = <<>>
    /\ overlapped = {}
    /\ au = NoCall
    /\ \E d \in Documents :
         ex = [pc |-> "start", html |-> d.html, titleText |-> d.titleText,
               articleText |-> d.articleText, modelCalls |-> 0]

\* extractArticleContent up to its return or to the await of extractWithAI
ExtractStart ==
    /\ ex.pc = "start"
    /\ LET traditionalExtraction == extractWithTraditionalMethods(ex.html) IN
         ex' = IF needsAI(traditionalExtraction)
               THEN [pc |-> "ai", html |-> ex.html, titleText |-> ex.titleText,
                     articleText |-> ex.articleText, modelCalls |-> 1,
                     traditional |-> traditionalExtraction,
                     prompt |-> promptTextOf(ex.html)]
               ELSE [pc |-> "done", html |-> ex.html, titleText |-> ex.titleText,
                     articleText |-> ex.articleText, modelCalls |-> 0,
                     traditional |-> traditionalExtraction,
                     result |-> traditionalExtraction]
    /\ UNCHANGED <<articles, runs, storage, lastOp, epoch, writtenBy, overlapped, au>>

\* the rest of extractWithAI: the request fails or its answer does not
\* parse, or the parsed answer is returned with the defaults filled in
ExtractModelAnswer ==
    /\ ex.pc = "ai"
    /\ \/ \E e \in ThrownByModel :
            ex' = [pc |-> "threw", html |-> ex.html, titleText |-> ex.titleText,
                   articleText |-> ex.articleText, modelCalls |-> ex.modelCalls,
                   traditional |-> ex.traditional, error |-> e]
       \/ \E answer \in ModelAnswers :
            ex' = [pc |-> "done", html |-> ex.html, titleText |-> ex.titleText,
                   articleText |-> ex.articleText, modelCalls |-> ex.modelCalls,
                   traditional |-> ex.traditional, answer |-> answer,
                   result |-> extractWithAI(answer)]
    /\ UNCHANGED <<articles, runs, storage, lastOp, epoch, writtenBy, overlapped, au>>

NextExtract == ExtractStart \/ ExtractModelAnswer

SpecExtract == InitExtract /\ [][NextExtract]_vars

\* ---------------------------------------- one call of generateAudio alone
MaxChunks == 3
\* the chunks a stream can yield: Uint8Arrays of 0, 1 and 2 bytes
ChunkValues == {<<>>, <<1>>, <<2, 3>>}
\* the streams textToSpeech.convert can hand back: every sequence of at most
\* MaxChunks chunks, after which the stream signals done
Streams == UNION {[1..n -> ChunkValues] : n \in 0..MaxChunks}
ApiKeys == {"", "key"}
ApiKeyNotConfigured == "ElevenLabs API key not configured"

\* chunks.reduce((acc, chunk) => acc + chunk.length, 0)
RECURSIVE totalLength(_)
totalLength(chunks) ==
    IF chunks = <<>> THEN 0 ELSE Len(Head(chunks)) + totalLength(Tail(chunks))

\* result.set(chunk, offset)
setAt(result, chunk, offset) ==
    [i \in DOMAIN result |->
        IF i > offset /\ i <= offset + Len(chunk) THEN chunk[i - offset]
        ELSE result[i]]

RECURSIVE combineFromSameOffset(_, _, _, _)
combineFromSameOffset(chunks, k, result, offset) ==
    IF k > Len(chunks) THEN result
    ELSE combineFromSameOffset(chunks, k + 1, setAt(result, chunks[k], offset), offset)

\* for (const chunk of chunks) { result.set(chunk, offset); offset +=
\* chunk.length; }, from the k-th chunk on
RECURSIVE combineFrom(_, _, _, _)
combineFrom(chunks, k, result, offset) ==
    IF k > Len(chunks) THEN result
    ELSE combineFrom(chunks, k + 1, setAt(result, chunks[k], offset),
                     offset + Len(chunks[k]))

\* const result = new Uint8Array(totalLength); let offset = 0; the loop;
\* return result.buffer
combineChunks(chunks) ==
    combineFrom(chunks, 1, [i \in 1..totalLength(chunks) |-> 0], 0)

\* The tables stay empty and no run is scheduled; au is the call: the
\* configured key, the stream the provider will hand back (provided, and what
\* of it is still to be read), the chunks array, and the buffer returned.
InitAudio ==
    /\ articles = <<>>
    /\ runs = <<>>
    /\ storage = <<>>
    /\ lastOp = [op |-> "init", url |-> "", articleId |-> 0, error |-> ""]
    /\ epoch = <<>>
    /\ writtenBy = <<>>
    /\ overlapped = {}
    /\ ex = NoCall
    /\ \E apiKey \in ApiKeys, stream \in Streams :
         au = [pc |-> "start", apiKey |-> apiKey, provided |-> stream,
               remaining |-> stream, chunks |-> <<>>]

\* the handler up to the await of textToSpeech.convert
AudioStart ==
    /\ au.pc = "start"
    /\ au' = IF au.apiKey = ""
             THEN [au EXCEPT !.pc = "threw"] @@ [error |-> Err(ApiKeyNotConfigured)]
             ELSE [au EXCEPT !.pc = "convert"]
    /\ UNCHANGED <<articles, runs, storage, lastOp, epoch, writtenBy, overlapped, ex>>

\* convert fails, or it hands back the stream and the first read is awaited
AudioConvert ==
    /\ au.pc = "convert"
    /\ \/ \E e \in Thrown : au' = [au EXCEPT !.pc = "threw"] @@ [error |-> e]
       \/ au' = [au EXCEPT !.pc = "read"]
    /\ UNCHANGED <<articles, runs, storage, lastOp, epoch, writtenBy, overlapped, ex>>

\* const { done, value } = await reader.read(): the read fails; or the
\* stream is done, the loop is left and the chunks are combined and
\* returned; or value is pushed and the next read is awaited
AudioRead ==
    /\ au.pc = "read"
    /\ \/ \E e \in Thrown : au' = [au EXCEPT !.pc = "threw"] @@ [error |-> e]
       \/ /\ au.remaining = <<>>
          /\ au' = [au EXCEPT !.pc = "returned"]
                      @@ [result |-> combineChunks(au.chunks)]
       \/ /\ au.remaining # <<>>
          /\ au' = [au EXCEPT !.chunks = Append(@, Head(au.remaining)),
                              !.remaining = Tail(@)]
    /\ UNCHANGED <<articles, runs, storage, lastOp, epoch, writtenBy, overlapped, ex>>

NextAudio == AudioStart \/ AudioConvert \/ AudioRead

SpecAudio == InitAudio /\ [][NextAudio]_vars

\* --------------------------------------------------------------- claims
\* C1: every article with status completed has title, content and
\* audioFileId all present.
C1_CompletedHasAllFields ==
    \A a \in ArticleIds :
        articles[a].status = "completed" =>
            Has(articles[a], "title") /\ Has(articles[a], "content")
                /\ Has(articles[a], "audioFileId")

\* C2: errorMessage is present on an article only when its status is error.
C2_ErrorMessageOnlyInError ==
    \A a \in ArticleIds :
        Has(articles[a], "errorMessage") => articles[a].status = "error"

\* C3: the title, content and audio reference visible on a record were
\* never written by a run scheduled before the record's last retry.
C3_NoStaleDataAfterRetry ==
    \A a \in ArticleIds :
        /\ Has(articles[a], "title") \/ Has(articles[a], "content") =>
              runs[writtenBy[a].text].epoch = epoch[a]
        /\ Has(articles[a], "audioFileId") =>
              runs[writtenBy[a].audio].epoch = epoch[a]

\* C4: a status leaves error or completed only in a step that is a
\* successful retry of that article, and processing is only ever written
\* by a successful create or retry.
C4_TerminalUntilRetry ==
    [][\A a \in 1..Len(articles') :
          LET old == IF a \in ArticleIds THEN articles[a].status ELSE "<none>"
              new == articles'[a].status
          IN  /\ old \in {"error", "completed"} /\ new # old =>
                    /\ lastOp'.op = "retry" /\ lastOp'.error = ""
                    /\ lastOp'.articleId = a
              /\ new = "processing" /\ old # "processing" =>
                    /\ lastOp'.op \in {"create", "retry"} /\ lastOp'.error = ""
                    /\ lastOp'.articleId = a]_vars

UniqueUrls ==
    \A a, b \in ArticleIds : articles[a].url = articles[b].url => a = b

\* C5: a create of a url that an article already has fails with "Article
\* already exists" and changes neither the table, nor the scheduled runs,
\* nor the blob store; and no two articles ever have the same url.
C5_DuplicateSubmitRejected ==
    /\ [][lastOp'.op = "create"
            /\ (\E a \in ArticleIds : articles[a].url = lastOp'.url) =>
              /\ lastOp'.error = ArticleAlreadyExists
              /\ UNCHANGED <<articles, runs, storage>>]_vars
    /\ []UniqueUrls

C5_Witness ==
    /\ lastOp.op = "create" /\ lastOp.error = ArticleAlreadyExists
    /\ \E a \in ArticleIds : articles[a].url = lastOp.url
    /\ Len(runs) = Len(articles)

\* C6: a successful retry of an article, whatever its status, leaves the
\* record with exactly its url and status processing (title, content,
\* audioFileId and errorMessage absent), in the same step that schedules
\* the new run, which is then still at its first statement; no id changes.
C6_RetryResets ==
    [][lastOp'.op = "retry" /\ lastOp'.error = "" =>
          LET a == lastOp'.articleId IN
          /\ a \in ArticleIds
          /\ Len(articles') = Len(articles)
          /\ DOMAIN articles'[a] = {"url", "status"}
          /\ articles'[a].url = articles[a].url
          /\ articles'[a].status = "processing"
          /\ Len(runs') = Len(runs) + 1
          /\ runs'[Len(runs')].articleId = a
          /\ runs'[Len(runs')].pc = "scheduled"
          /\ \A r \in RunIds : runs'[r] = runs[r]]_vars

\* a retry has just reset an article that an earlier run had completed and
\* given a title
C6_Witness ==
    /\ lastOp.op = "retry" /\ lastOp.error = ""
    /\ DOMAIN articles[lastOp.articleId] = {"url", "status"}
    /\ \E r \in RunIds : runs[r].articleId = lastOp.articleId
                          /\ runs[r].pc = "completed"

C8_ErrorHasMessage ==
    \A a \in ArticleIds :
        articles[a].status = "error" => Has(articles[a], "errorMessage")

\* an error written by an earlier run onto a record that a retry had reset
C8_Witness ==
    \E a \in ArticleIds, r \in RunIds :
        /\ articles[a].status = "error"
        /\ runs[r].articleId = a /\ runs[r].pc = "error"
        /\ runs[r].epoch < epoch[a]

\* C9: every article with status processing has audioFileId absent.
C9_ProcessingHasNoAudio ==
    \A a \in ArticleIds :
        articles[a].status = "processing" => ~Has(articles[a], "audioFileId")

\* an article back in processing after a run had completed it
C9_Witness ==
    \E a \in ArticleIds, r \in RunIds :
        /\ articles[a].status = "processing"
        /\ runs[r].articleId = a /\ runs[r].pc = "completed"
        /\ epoch[a] > runs[r].epoch

FetchFailures == {Err(FetchFailedPrefix \o statusText) : statusText \in StatusTexts}

\* C10: a run whose fetch returns a response that is not ok goes from the
\* fetch straight to its catch block, takes from there the one step that
\* returns, and at that step the record has status error, the message
\* "Failed to fetch article: " followed by the status text, and title,
\* content and audioFileId absent.
C10_FetchFailureLeavesNoContent ==
    [][\A r \in RunIds :
          LET a == runs[r].articleId IN
          /\ runs'[r].error \in FetchFailures /\ runs[r].error \notin FetchFailures =>
                runs[r].pc = "fetch" /\ runs'[r].pc = "catch"
          /\ runs[r].error \in FetchFailures /\ runs'[r] # runs[r] =>
                /\ runs[r].pc = "catch" /\ runs'[r].pc = "error"
                /\ articles'[a].status = "error"
                /\ articles'[a].errorMessage = runs[r].error.message
                /\ ~Has(articles'[a], "title")
                /\ ~Has(articles'[a], "content")
                /\ ~Has(articles'[a], "audioFileId")]_vars

\* C11: when a run that has never shared its article with another run
\* in flight takes its last step after every stage succeeded, the record
\* gets status completed, keeps the non-empty title and content that the
\* run extracted, and its audioFileId is the reference the blob store
\* returned for the run's buffer; list then shows the article with an
\* audioUrl that is not null; and whenever a step creates or changes a
\* record, list shows that article with a null audioUrl exactly if the
\* record has no audioFileId.
C11_SuccessfulRunCompletes ==
    [][/\ \A r \in RunIds :
            runs[r].pc = "complete" /\ runs'[r] # runs[r] /\ r \notin overlapped =>
              LET a == runs[r].articleId
                  d == articles'[a]
              IN  /\ runs'[r].pc = "completed"
                  /\ d.status = "completed"
                  /\ Has(d, "title") /\ Has(d, "content") /\ Has(d, "audioFileId")
                  /\ d.title = runs[r].extractedData.title /\ d.title # ""
                  /\ d.content = runs[r].extractedData.content /\ d.content # ""
                  /\ d.audioFileId = runs[r].audioFileId
                  /\ storage'[d.audioFileId] = runs[r].audioBuffer
                  /\ \E i \in DOMAIN list' :
                        list'[i].id = a /\ list'[i].audioUrl # nullUrl
       /\ \A a \in ArticleIds' :
            a \notin ArticleIds \/ articles'[a] # articles[a] =>
               LET shown == list'[Len(articles') + 1 - a] IN
               /\ shown.id = a
               /\ shown.audioUrl = nullUrl <=> ~Has(articles'[a], "audioFileId")
      ]_vars

\* the only run ever scheduled has completed its article, and list shows
\* the article with an audio url
C11_Witness ==
    /\ Len(runs) = 1 /\ runs[1].pc = "completed"
    /\ articles[1].status = "completed"
    /\ list[1].id = 1 /\ list[1].audioUrl # nullUrl

\* the order of the positions of one invocation: each await is entered
\* from the one before it, every await of the try block can leave to the
\* catch block, and the handler returns from its last await or from the
\* catch block
StageOrder ==
    {<<"scheduled", "fetch">>, <<"fetch", "text">>, <<"text", "ai">>,
     <<"text", "update">>, <<"ai", "update">>, <<"update", "generate">>,
     <<"generate", "store">>, <<"store", "complete">>,
     <<"complete", "completed">>, <<"catch", "error">>}
    \cup {<<p, "catch">> : p \in {"scheduled", "fetch", "text", "ai", "update",
                                   "generate", "store"}}

\* C12: a run moves through fetch, extraction, the title/content write,
\* synthesis, storage and the completion write in that order, entering a
\* stage only with the result of the one before; its title/content write
\* leaves the status as it is and its completion write comes later; and
\* between the two the record of a run that shares its article with no
\* other run or retry has status processing, the run's title and content
\* and no audioFileId.
C12_StagesInOrder ==
    /\ [][\A r \in RunIds :
            LET a == runs[r].articleId IN
            /\ runs'[r].pc # runs[r].pc => <<runs[r].pc, runs'[r].pc>> \in StageOrder
            /\ runs[r].pc = "update" /\ runs'[r].pc = "generate" =>
                  /\ articles'[a].title = runs[r].extractedData.title
                  /\ articles'[a].content = runs[r].extractedData.content
                  /\ articles'[a].status = articles[a].status
            /\ runs[r].pc = "complete" /\ runs'[r].pc = "completed" =>
                  articles'[a].status = "completed"]_vars
    /\ [](\A r \in RunIds :
            LET a == runs[r].articleId IN
            /\ runs[r].pc \in {"update", "generate", "store", "complete"} =>
                  runs[r].extractedData # NoData
            /\ runs[r].pc \in {"store", "complete"} =>
                  runs[r].audioBuffer = <<"speech", runs[r].extractedData.content>>
            /\ runs[r].pc = "complete" =>
                  /\ runs[r].audioFileId \in 1..Len(storage)
                  /\ storage[runs[r].audioFileId] = runs[r].audioBuffer
            /\ runs[r].pc \in {"generate", "store", "complete"} /\ r \notin overlapped =>
                  /\ articles[a].status = "processing"
                  /\ Has(articles[a], "title") /\ Has(articles[a], "content")
                  /\ articles[a].title = runs[r].extractedData.title
                  /\ articles[a].content = runs[r].extractedData.content
                  /\ ~Has(articles[a], "audioFileId"))

\* a run on its own has stored its audio and is about to write completion:
\* the record is still processing and shows the run's title
C12_Witness ==
    \E r \in RunIds :
        /\ runs[r].pc = "complete" /\ r \notin overlapped
        /\ articles[runs[r].articleId].status = "processing"
        /\ Has(articles[runs[r].articleId], "title")

runsOf(articleId) == {r \in RunIds : runs[r].articleId = articleId}

\* C13: a run is scheduled exactly in the steps that are a successful
\* create or a successful retry, one run per step and for the article of
\* that step; a failed create or retry and every step of a run schedule
\* nothing; so an article has had one run more than it has had successful
\* retries.
C13_OneRunPerSubmitOrRetry ==
    [][LET succeeded == lastOp'.op \in {"create", "retry"} /\ lastOp'.error = ""
       IN  /\ succeeded =>
                 /\ Len(runs') = Len(runs) + 1
                 /\ runs'[Len(runs')].articleId = lastOp'.articleId
                 /\ runs'[Len(runs')].pc = "scheduled"
           /\ ~succeeded => Len(runs') = Len(runs)
           /\ \A a \in ArticleIds' : Cardinality(runsOf(a)') = 1 + epoch'[a]
      ]_vars

\* an article that was retried once after its first run ended in error,
\* and a create or retry that has just failed
C13_Witness ==
    /\ lastOp.op \in {"create", "retry"} /\ lastOp.error # ""
    /\ \E a \in ArticleIds :
          /\ epoch[a] = 1 /\ Cardinality(runsOf(a)) = 2
          /\ \E r \in runsOf(a) : runs[r].pc = "error"

\* C14: extractArticleContent puts a question to the model exactly when the
\* heuristic result has an empty title or a content of fewer than 200
\* characters.  When it does, the value returned is the model's answer with
\* a missing or empty title or content replaced by its default, so that
\* neither is empty; when it does not, the value returned is the heuristic
\* result itself and the model has not been asked.
C14_GateDecidesExtractor ==
    ex.pc \in {"ai", "threw", "done"} =>
        LET gate == \/ ex.traditional.title = ""
                    \/ Len(ex.traditional.content) < 200
            given(f) == f \in DOMAIN ex.answer /\ ex.answer[f] # ""
        IN  /\ ex.modelCalls = (IF gate THEN 1 ELSE 0)
            /\ ex.pc \in {"ai", "threw"} => gate
            /\ ex.pc = "done" /\ ~gate => ex.result = ex.traditional
            /\ ex.pc = "done" /\ gate =>
                  /\ ex.result.title # "" /\ ex.result.content # ""
                  /\ ex.result.title =
                       (IF given("title") THEN ex.answer.title
                        ELSE "Untitled Article")
                  /\ ex.result.content =
                       (IF given("content") THEN ex.answer.content
                        ELSE "No content extracted")

\* the page with an empty title element and a short unstructured text has
\* gone to the model, whose answer had no content
C14_Witness ==
    /\ ex.pc = "done"
    /\ ex.html = "<title></title>" \o ShortText
    /\ ex.modelCalls = 1
    /\ "content" \notin DOMAIN ex.answer
    /\ ex.result.content = NoContentExtracted

\* C15: for a document with a non-empty title element and an <article>
\* element holding at least 200 characters of text, the call returns the
\* title element's text as title and exactly the text inside the <article>
\* element as content, and the model is not asked.
C15_ArticleElementExtracted ==
    (/\ ex.pc \in {"ai", "threw", "done"}
     /\ ex.titleText # ""
     /\ Len(ex.articleText) >= 200)
        => /\ ex.pc = "done"
           /\ ex.modelCalls = 0
           /\ ex.result = [title |-> ex.titleText, content |-> ex.articleText]

\* the bytes of a sequence of chunks, one chunk after the other
RECURSIVE Concatenation(_)
Concatenation(seq) ==
    IF seq = <<>> THEN <<>> ELSE Head(seq) \o Concatenation(Tail(seq))

\* C16: whatever finite sequence of chunks the provider's stream yields, the
\* buffer generateAudio returns is exactly those chunks one after the other
\* in the order they arrived, and it is returned only when the stream has
\* yielded all of them and signalled that it is done; while chunks are still
\* being read, the chunks array is the part of the stream read so far.
C16_ChunksConcatenatedInOrder ==
    /\ au.pc = "returned" =>
          /\ au.remaining = <<>>
          /\ au.result = Concatenation(au.provided)
          /\ Len(au.result) = totalLength(au.provided)
    /\ au.pc \in {"read", "returned"} =>
          /\ au.chunks \o au.remaining = au.provided
          /\ au.pc = "read" => "result" \notin DOMAIN au

\* the stream [b1, b2, b3] with b1 = <<1>>, b2 = <<2, 3>>, b3 = <<1>> has
\* been read to its end and b1 ++ b2 ++ b3 returned
C16_Witness ==
    /\ au.pc = "returned"
    /\ au.provided = << <<1>>, <<2, 3>>, <<1>> >>
    /\ au.result = <<1, 2, 3, 1>>

C18_RetryDoesNotCancelLastWriterWins ==
    [][/\ lastOp'.op = "retry" /\ lastOp'.error = "" =>
             \A r \in RunIds :
                /\ runs'[r] = runs[r]
                /\ InFlight(r) => (ENABLED processArticle(r))'
       /\ \A r \in RunIds :
             LET a == runs[r].articleId IN
             /\ runs[r].pc = "update" /\ runs'[r].pc = "generate" =>
                   /\ articles'[a].title = runs[r].extractedData.title
                   /\ articles'[a].content = runs[r].extractedData.content
             /\ InFlight(r) /\ runs'[r].pc \in Returned =>
                   articles'[a].status = runs'[r].pc
       /\ \A a \in ArticleIds :
             /\ inFlightOf(a) = {}
             /\ articles'[a].status # articles[a].status
             => lastOp'.op = "retry" /\ lastOp'.error = "" /\ lastOp'.articleId = a
      ]_vars

\* an article was retried while its first invocation was in flight; the
\* retry's invocation completed the article, and the first invocation,
\* failing afterwards, left the record in error with the title the two wrote
C18_Witness ==
    \E a \in ArticleIds : \E r1, r2 \in runsOf(a) :
        /\ runs[r1].epoch < runs[r2].epoch
        /\ runs[r1].pc = "error" /\ runs[r2].pc = "completed"
        /\ articles[a].status = "error"
        /\ Has(articles[a], "title") /\ Has(articles[a], "audioFileId")

C20_AudioMatchesContent ==
    \A a \in ArticleIds :
        articles[a].status = "completed" =>
            /\ Has(articles[a], "content") /\ Has(articles[a], "audioFileId")
            /\ storage[articles[a].audioFileId] = generateAudio(articles[a].content)
====
